---------------------------- MODULE Spec2Model ----------------------------
(***************************************************************************)
(* Model of azure-blob-uploader-downloader-reader.py: a single-threaded    *)
(* command line tool that loads three environment values, prompts for a    *)
(* menu digit and runs one of upload_from_path, download_file or           *)
(* read_and_print_blob against an Azure blob container.                    *)
(*                                                                         *)
(* Strings that the program builds (local paths, blob paths) are sequences *)
(* of tokens: the separator "/" is a token of its own and every other      *)
(* token is a directory entry name or an opaque prefix, so that            *)
(* os.path.join can be modelled by what it does to its arguments.          *)
(* Calls into the Azure SDK, pandas and the operating system are the       *)
(* environment: each may succeed or raise, chosen nondeterministically.    *)
(***************************************************************************)
EXTENDS Naturals, Sequences, FiniteSets

(***************************************************************************)
(* Bounds of the model.                                                    *)
(***************************************************************************)
MaxFiles == 3
MaxLen == 2

Names == {"a", "b"}
\* local paths below the start path have at most as many components as
\* there are entry names
MaxPathLen == Cardinality(Names)
SEP == "/"
None == "None"
Bytes == {97, 255}
\* no file / nothing read yet: a value that is no byte sequence
Absent == <<256>>
NoCall == [local_file_path |-> <<>>, blob_path |-> <<>>]

\* sys.getrecursionlimit() scaled to the model: the number of nested
\* upload_from_path calls the deepest link-free tree of the model needs
RecursionLimit == MaxPathLen + 1

VARIABLES
    env,        \* process environment: name -> value, None when unset
    choice,     \* what input() returned, None before the prompt
    pc,         \* position of the single thread of control
    exc,        \* the exception in flight or that ended the run, "none"
    fs,         \* the local tree under the upload path
    stack,      \* active upload_from_path frames, innermost last
    uf,         \* arguments of the active upload_file call, or NoCall
    calls,      \* upload_file invocations so far: <<local path, blob path>>
    log,        \* what has been printed
    handles,    \* local paths that have an open file object
    localFile,  \* content of the download destination, or Absent
    localFile0, \* its content when the program started
    content,    \* bytes returned by readall(), Absent before
    effects,    \* kinds of outside activity so far: "client", "net", "file"
    invoked     \* operations main() has called, with their arguments

vars == <<env, choice, pc, exc, fs, stack, uf, calls, log, handles,
          localFile, localFile0, content, effects, invoked>>

-----------------------------------------------------------------------------
(***************************************************************************)
(* Strings and os.path.join                                                *)
(***************************************************************************)
Last(s) == s[Len(s)]

\* posixpath.join(a, b)
JoinKeepsFirst(a, b) == a

Join(a, b) ==
    IF b # <<>> /\ Head(b) = SEP THEN b
    ELSE IF a = <<>> \/ Last(a) = SEP THEN a \o b
    ELSE a \o <<SEP>> \o b

\* the names between the separators of a local path below the start path
RelOf(path) == SelectSeq(Tail(path), LAMBDA t : t # SEP)

IsPrefix(p, q) == Len(p) <= Len(q) /\ SubSeq(q, 1, Len(p)) = p
ProperPrefix(p, q) == IsPrefix(p, q) /\ p # q

SeqsUpTo(S, n) == UNION {[1..k -> S] : k \in 0..n}

Perms(S) == {s \in [1..Cardinality(S) -> S] :
                \A i, j \in 1..Cardinality(S) : i # j => s[i] # s[j]}

-----------------------------------------------------------------------------
(***************************************************************************)
(* The local filesystem below the upload start path                        *)
(***************************************************************************)
TreePaths == SeqsUpTo(Names, MaxPathLen)

NoExtra == [kind |-> "none", path |-> <<>>, target |-> <<>>]

FileSets == {F \in SUBSET TreePaths :
                /\ Cardinality(F) <= MaxFiles
                /\ \A f, g \in F : f # g => ~IsPrefix(f, g)}

\* one more entry besides the regular files: an empty directory or a special
\* file (neither regular nor directory) at the start path or right below it,
\* or a link anywhere that leads to its parent directory or to the start path
Extras(F) ==
    {NoExtra} \cup
    {x \in [kind : {"dir", "other", "link"}, path : TreePaths, target : TreePaths] :
        /\ \A f \in F : ~IsPrefix(f, x.path) /\ ~IsPrefix(x.path, f)
        /\ IF x.kind = "link"
           THEN Cardinality(F) <= 1 /\ x.path # <<>> /\ x.target \in {<<>>, SubSeq(x.path, 1, Len(x.path) - 1)}
           ELSE Len(x.path) <= 1 /\ x.target = x.path}

FileSystems == UNION {{[files |-> F, extra |-> x] : x \in Extras(F)} : F \in FileSets}

NoFiles == [files |-> {}, extra |-> NoExtra]

NodeKind(p) ==
    IF p \in fs.files THEN "file"
    ELSE IF fs.extra.kind = "link" /\ p = fs.extra.path THEN "link"
    ELSE IF fs.extra.kind = "other" /\ p = fs.extra.path THEN "other"
    ELSE IF \/ \E f \in fs.files : ProperPrefix(p, f)
            \/ fs.extra.kind # "none" /\ ProperPrefix(p, fs.extra.path)
            \/ fs.extra.kind = "dir" /\ p = fs.extra.path THEN "dir"
    ELSE "absent"

\* where a sequence of names leads from the start path, links followed
RECURSIVE ResolveFrom(_, _)
ResolveFrom(cur, rest) ==
    IF rest = <<>> THEN cur
    ELSE LET nxt == Append(cur, Head(rest))
         IN  ResolveFrom(IF NodeKind(nxt) = "link" THEN fs.extra.target ELSE nxt,
                         Tail(rest))

Resolve(path) == ResolveFrom(<<>>, RelOf(path))

isfile(path) == NodeKind(Resolve(path)) = "file"
isdir(path) == NodeKind(Resolve(path)) = "dir"
listdir(path) == {n \in Names : NodeKind(Append(Resolve(path), n)) # "absent"}


-----------------------------------------------------------------------------
(***************************************************************************)
(* Exceptions, messages and control transfers                              *)
(***************************************************************************)
EnvNames == {"STORAGE_SAS_TOKEN_CHD", "CONTAINER_NAME_CHD", "STORAGE_ACCOUNT_CHD"}
EnvValues == {None, "", "v"}

LOCAL_UPLOAD == <<"~/Downloads/test-may-2.csv">>
LOCAL_DOWNLOAD == <<"~/Downloads/downloaded-test-may-2.csv">>
BLOB == <<"test-may-2.csv">>

Msg(text, path, err) == [text |-> text, path |-> path, err |-> err]

Frame(local_path, blob_base_path) ==
    [local_path |-> local_path, blob_base_path |-> blob_base_path, items |-> <<>>]

Top == stack[Len(stack)]

\* an exception that no frame catches: every frame is unwound and the run ends
Propagate(e) ==
    /\ exc' = e
    /\ pc' = "crashed"
    /\ stack' = <<>>
    /\ uf' = NoCall

\* the innermost upload_from_path frame returns to its caller
ReturnFromPath ==
    /\ stack' = SubSeq(stack, 1, Len(stack) - 1)
    /\ pc' = IF Len(stack) = 1 THEN "done" ELSE "for_item"

\* BlobClient.from_blob_url(blob_url=sas_url), called outside any try block:
\* builds a client without network traffic, or rejects the URL
FromBlobUrl(next) ==
    /\ effects' = effects \cup {"client"}
    /\ \/ /\ pc' = next
          /\ UNCHANGED <<exc, stack, uf>>
       \/ Propagate("ValueError")

\* leaving a with block closes the file object, whether or not it raises
WithExitLeaks(h, path) == h
WithExit(h, path) == h \ {path}

-----------------------------------------------------------------------------
(***************************************************************************)
(* upload_file                                                             *)
(***************************************************************************)
UploadFile_FromBlobUrl ==
    /\ pc = "uf_from_blob_url"
    /\ FromBlobUrl("uf_open")
    /\ UNCHANGED <<env, choice, fs, calls, log, handles, localFile, localFile0,
                   content, invoked>>

\* open(local_file_path, "rb")
UploadFile_Open ==
    /\ pc = "uf_open"
    /\ effects' = effects \cup {"file"}
    /\ \/ /\ handles' = handles \cup {uf.local_file_path}
          /\ pc' = "uf_upload_blob"
          /\ exc' = exc
       \/ /\ exc' = "OSError"
          /\ pc' = "uf_except"
          /\ handles' = handles
    /\ UNCHANGED <<env, choice, fs, stack, uf, calls, log, localFile, localFile0,
                   content, invoked>>

\* blob_client.upload_blob(data, overwrite=True), then the success message
UploadFile_UploadBlob ==
    /\ pc = "uf_upload_blob"
    /\ effects' = effects \cup {"net", "file"}
    /\ \/ /\ log' = Append(log, Msg("Upload completed successfully", uf.blob_path, "none"))
          /\ pc' = "uf_with_exit"
          /\ exc' = exc
       \/ /\ exc' = "HttpResponseError"
          /\ pc' = "uf_with_exit"
          /\ log' = log
    /\ UNCHANGED <<env, choice, fs, stack, uf, calls, handles, localFile, localFile0,
                   content, invoked>>

UploadFile_WithExit ==
    /\ pc = "uf_with_exit"
    /\ handles' = WithExit(handles, uf.local_file_path)
    /\ IF exc = "none"
       THEN /\ ReturnFromPath
            /\ uf' = NoCall
       ELSE /\ pc' = "uf_except"
            /\ UNCHANGED <<stack, uf>>
    /\ UNCHANGED <<env, choice, exc, fs, calls, log, localFile, localFile0, content,
                   effects, invoked>>

\* except Exception as e: print(f"Failed to upload {blob_path}: {e}")
UploadFile_Except ==
    /\ pc = "uf_except"
    /\ log' = Append(log, Msg("Failed to upload", uf.blob_path, exc))
    /\ exc' = "none"
    /\ ReturnFromPath
    /\ uf' = NoCall
    /\ UNCHANGED <<env, choice, fs, calls, handles, localFile, localFile0, content,
                   effects, invoked>>

-----------------------------------------------------------------------------
(***************************************************************************)
(* upload_from_path                                                        *)
(***************************************************************************)
\* the body up to the loop: isfile / isdir / listdir
UploadFromPath ==
    /\ pc = "upload_from_path"
    /\ effects' = effects \cup {"file"}
    /\ IF isfile(Top.local_path)
       THEN /\ uf' = [local_file_path |-> Top.local_path, blob_path |-> Top.blob_base_path]
            /\ calls' = Append(calls, <<Top.local_path, Top.blob_base_path>>)
            /\ pc' = "uf_from_blob_url"
            /\ stack' = stack
       ELSE IF isdir(Top.local_path)
       THEN /\ \E order \in Perms(listdir(Top.local_path)) :
                   stack' = [stack EXCEPT ![Len(stack)].items = order]
            /\ pc' = "for_item"
            /\ UNCHANGED <<uf, calls>>
       ELSE /\ ReturnFromPath
            /\ UNCHANGED <<uf, calls>>
    /\ UNCHANGED <<env, choice, exc, fs, log, handles, localFile, localFile0, content,
                   invoked>>

\* one iteration of "for item in os.listdir(local_path)", or the end of the loop
UploadFromPath_ForItem ==
    /\ pc = "for_item"
    /\ IF Top.items = <<>>
       THEN /\ ReturnFromPath
            /\ UNCHANGED <<exc, uf>>
       ELSE IF Len(stack) >= RecursionLimit
       THEN Propagate("RecursionError")
       ELSE /\ stack' = Append([stack EXCEPT ![Len(stack)].items = Tail(Top.items)],
                               Frame(Join(Top.local_path, <<Head(Top.items)>>),
                                     Join(Top.blob_base_path, <<Head(Top.items)>>)))
            /\ pc' = "upload_from_path"
            /\ UNCHANGED <<exc, uf>>
    /\ UNCHANGED <<env, choice, fs, calls, log, handles, localFile, localFile0, content,
                   effects, invoked>>

-----------------------------------------------------------------------------
(***************************************************************************)
(* download_file                                                           *)
(***************************************************************************)
Contents == SeqsUpTo(Bytes, MaxLen)

\* exceptions of download_blob() / readall(): a transport failure carries no
\* response attribute, a service failure carries a response, which is None
\* when the SDK raised it without one
DownloadErrors == {"ServiceRequestError", "HttpResponseError", "HttpResponseErrorNoResponse"}
HasResponseAttr(e) == e \in {"HttpResponseError", "HttpResponseErrorNoResponse"}
ResponseIsNone(e) == e = "HttpResponseErrorNoResponse"

\* "if not content"
NeverFalsy(c) == FALSE
Falsy(c) == c = <<>>

\* what open(local_file_path, "wb") leaves in the file
OpenAppend(old) == IF old = Absent THEN <<>> ELSE old
OpenWb(old) == <<>>

ProperPrefixes(c) == {SubSeq(c, 1, k) : k \in 0..(Len(c) - 1)}

DownloadFile_FromBlobUrl ==
    /\ pc = "dl_from_blob_url"
    /\ FromBlobUrl("dl_download_blob")
    /\ UNCHANGED <<env, choice, fs, calls, log, handles, localFile, localFile0,
                   content, invoked>>

\* download_stream = blob_client.download_blob(); content = download_stream.readall()
DownloadFile_DownloadBlob ==
    /\ pc = "dl_download_blob"
    /\ effects' = effects \cup {"net"}
    /\ \/ /\ \E c \in Contents : content' = c
          /\ pc' = "dl_check"
          /\ exc' = exc
       \/ /\ \E e \in DownloadErrors : exc' = e
          /\ pc' = "dl_except"
          /\ content' = content
    /\ UNCHANGED <<env, choice, fs, stack, uf, calls, log, handles, localFile,
                   localFile0, invoked>>

\* if not content: print(...); return
DownloadFile_Check ==
    /\ pc = "dl_check"
    /\ IF Falsy(content)
       THEN /\ log' = Append(log, Msg("The blob is empty or could not be read", BLOB, "none"))
            /\ pc' = "done"
       ELSE /\ pc' = "dl_open"
            /\ log' = log
    /\ UNCHANGED <<env, choice, exc, fs, stack, uf, calls, handles, localFile,
                   localFile0, content, effects, invoked>>

\* open(local_file_path, "wb")
DownloadFile_Open ==
    /\ pc = "dl_open"
    /\ effects' = effects \cup {"file"}
    /\ \/ /\ handles' = handles \cup {LOCAL_DOWNLOAD}
          /\ localFile' = OpenWb(localFile)
          /\ pc' = "dl_write"
          /\ exc' = exc
       \/ /\ exc' = "OSError"
          /\ pc' = "dl_except"
          /\ UNCHANGED <<handles, localFile>>
    /\ UNCHANGED <<env, choice, fs, stack, uf, calls, log, localFile0, content, invoked>>

\* data.write(content): all of it, or an error after part of it
DownloadFile_Write ==
    /\ pc = "dl_write"
    /\ effects' = effects \cup {"file"}
    /\ \/ /\ localFile' = localFile \o content
          /\ pc' = "dl_print"
          /\ exc' = exc
       \/ /\ \E part \in ProperPrefixes(content) : localFile' = localFile \o part
          /\ exc' = "OSError"
          /\ pc' = "dl_with_exit"
    /\ UNCHANGED <<env, choice, fs, stack, uf, calls, log, handles, localFile0, content,
                   invoked>>

\* print(f"Download completed successfully for {blob_path}!")
DownloadFile_Print ==
    /\ pc = "dl_print"
    /\ log' = Append(log, Msg("Download completed successfully", BLOB, "none"))
    /\ pc' = "dl_with_exit"
    /\ UNCHANGED <<env, choice, exc, fs, stack, uf, calls, handles, localFile,
                   localFile0, content, effects, invoked>>

DownloadFile_WithExit ==
    /\ pc = "dl_with_exit"
    /\ handles' = WithExit(handles, LOCAL_DOWNLOAD)
    /\ pc' = IF exc = "none" THEN "done" ELSE "dl_except"
    /\ UNCHANGED <<env, choice, exc, fs, stack, uf, calls, log, localFile, localFile0,
                   content, effects, invoked>>

\* except Exception as e: print the failure; if hasattr(e, 'response'):
\* print e.response.status_code, which raises AttributeError on a None response
DownloadFile_Except ==
    /\ pc = "dl_except"
    /\ IF HasResponseAttr(exc)
       THEN IF ResponseIsNone(exc)
            THEN /\ log' = Append(log, Msg("Failed to download", BLOB, exc))
                 /\ Propagate("AttributeError")
            ELSE /\ log' = log \o <<Msg("Failed to download", BLOB, exc),
                                    Msg("HTTP status code", BLOB, exc)>>
                 /\ exc' = "none"
                 /\ pc' = "done"
                 /\ UNCHANGED <<stack, uf>>
       ELSE /\ log' = Append(log, Msg("Failed to download", BLOB, exc))
            /\ exc' = "none"
            /\ pc' = "done"
            /\ UNCHANGED <<stack, uf>>
    /\ UNCHANGED <<env, choice, fs, calls, handles, localFile, localFile0, content,
                   effects, invoked>>

-----------------------------------------------------------------------------
(***************************************************************************)
(* read_and_print_blob                                                     *)
(***************************************************************************)
\* content.decode('utf-8'): the byte 0xFF occurs in no UTF-8 encoding
DecodesUtf8(c) == \A i \in 1..Len(c) : c[i] # 255

ReadAndPrintBlob_FromBlobUrl ==
    /\ pc = "rp_from_blob_url"
    /\ FromBlobUrl("rp_download_blob")
    /\ UNCHANGED <<env, choice, fs, calls, log, handles, localFile, localFile0,
                   content, invoked>>

ReadAndPrintBlob_DownloadBlob ==
    /\ pc = "rp_download_blob"
    /\ effects' = effects \cup {"net"}
    /\ \/ /\ \E c \in Contents : content' = c
          /\ pc' = "rp_check"
          /\ exc' = exc
       \/ /\ \E e \in DownloadErrors : exc' = e
          /\ pc' = "rp_except"
          /\ content' = content
    /\ UNCHANGED <<env, choice, fs, stack, uf, calls, log, handles, localFile,
                   localFile0, invoked>>

ReadAndPrintBlob_Check ==
    /\ pc = "rp_check"
    /\ IF Falsy(content)
       THEN /\ log' = Append(log, Msg("The blob is empty or could not be read", BLOB, "none"))
            /\ pc' = "done"
       ELSE /\ pc' = "rp_decode"
            /\ log' = log
    /\ UNCHANGED <<env, choice, exc, fs, stack, uf, calls, handles, localFile,
                   localFile0, content, effects, invoked>>

\* data_str = StringIO(content.decode('utf-8'))
ReadAndPrintBlob_Decode ==
    /\ pc = "rp_decode"
    /\ IF DecodesUtf8(content)
       THEN /\ pc' = "rp_read_csv"
            /\ exc' = exc
       ELSE /\ pc' = "rp_except"
            /\ exc' = "UnicodeDecodeError"
    /\ UNCHANGED <<env, choice, fs, stack, uf, calls, log, handles, localFile,
                   localFile0, content, effects, invoked>>

\* df = pd.read_csv(data_str); print(df): pandas accepts the text or raises
ReadAndPrintBlob_ReadCsv ==
    /\ pc = "rp_read_csv"
    /\ \/ /\ log' = Append(log, Msg("table", BLOB, "none"))
          /\ pc' = "done"
          /\ exc' = exc
       \/ /\ exc' = "ParserError"
          /\ pc' = "rp_except"
          /\ log' = log
    /\ UNCHANGED <<env, choice, fs, stack, uf, calls, handles, localFile, localFile0,
                   content, effects, invoked>>

ReadAndPrintBlob_Except ==
    /\ pc = "rp_except"
    /\ log' = Append(log, Msg("Failed to read data from", BLOB, exc))
    /\ exc' = "none"
    /\ pc' = "done"
    /\ UNCHANGED <<env, choice, fs, stack, uf, calls, handles, localFile, localFile0,
                   content, effects, invoked>>

-----------------------------------------------------------------------------
(***************************************************************************)
(* load_env_vars and main                                                  *)
(***************************************************************************)
\* truth value of an environment value in "not all([...])"
TruthyUnlessUnset(v) == v # None
Truthy(v) == v # None /\ v # ""

LoadEnvVars ==
    /\ pc = "load_env_vars"
    /\ IF \A n \in EnvNames : Truthy(env[n])
       THEN /\ pc' = "input"
            /\ UNCHANGED <<exc, stack, uf>>
       ELSE Propagate("EnvironmentError")
    /\ UNCHANGED <<env, choice, fs, calls, log, handles, localFile, localFile0, content,
                   effects, invoked>>

Choices == {"1", "2", "3", "", " 1", "1 ", "12", "4"}

\* choice = input(...)
Input ==
    /\ pc = "input"
    /\ \E c \in Choices : choice' = c
    /\ pc' = "dispatch"
    /\ UNCHANGED <<env, exc, fs, stack, uf, calls, log, handles, localFile, localFile0,
                   content, effects, invoked>>

\* the branch of the if / elif chain that a menu input selects
SelectedStripped(c) ==
    IF c \in {"1", " 1", "1 "} THEN "upload_from_path"
    ELSE IF c = "2" THEN "download_file"
    ELSE IF c = "3" THEN "read_and_print_blob"
    ELSE "invalid"

Selected(c) ==
    IF c = "1" THEN "upload_from_path"
    ELSE IF c = "2" THEN "download_file"
    ELSE IF c = "3" THEN "read_and_print_blob"
    ELSE "invalid"

Dispatch ==
    /\ pc = "dispatch"
    /\ LET op == Selected(choice) IN
       IF op = "upload_from_path"
       THEN /\ invoked' = Append(invoked, <<op, LOCAL_UPLOAD, BLOB>>)
            /\ stack' = <<Frame(LOCAL_UPLOAD, BLOB)>>
            /\ pc' = "upload_from_path"
            /\ log' = log
       ELSE IF op = "download_file"
       THEN /\ invoked' = Append(invoked, <<op, BLOB, LOCAL_DOWNLOAD>>)
            /\ pc' = "dl_from_blob_url"
            /\ UNCHANGED <<stack, log>>
       ELSE IF op = "read_and_print_blob"
       THEN /\ invoked' = Append(invoked, <<op, BLOB>>)
            /\ pc' = "rp_from_blob_url"
            /\ UNCHANGED <<stack, log>>
       ELSE /\ log' = Append(log, Msg("Invalid choice.", <<>>, "none"))
            /\ pc' = "done"
            /\ UNCHANGED <<stack, invoked>>
    /\ UNCHANGED <<env, choice, exc, fs, uf, calls, handles, localFile, localFile0,
                   content, effects>>

-----------------------------------------------------------------------------
(***************************************************************************)
(* Specifications                                                          *)
(***************************************************************************)
Quiet ==
    /\ exc = "none"
    /\ uf = NoCall
    /\ calls = <<>>
    /\ log = <<>>
    /\ handles = {}
    /\ content = Absent
    /\ effects = {}

\* a run of the program: main() is about to call load_env_vars()
Init ==
    /\ env \in [EnvNames -> EnvValues]
    /\ choice = None
    /\ pc = "load_env_vars"
    /\ stack = <<>>
    /\ \/ fs \in FileSystems /\ localFile0 = Absent
       \/ fs = NoFiles /\ localFile0 \in Contents
    /\ localFile = localFile0
    /\ invoked = <<>>
    /\ Quiet

UploadNext ==
    \/ UploadFromPath
    \/ UploadFromPath_ForItem
    \/ UploadFile_FromBlobUrl
    \/ UploadFile_Open
    \/ UploadFile_UploadBlob
    \/ UploadFile_WithExit
    \/ UploadFile_Except

Next ==
    \/ LoadEnvVars
    \/ Input
    \/ Dispatch
    \/ UploadFromPath
    \/ UploadFromPath_ForItem
    \/ UploadFile_FromBlobUrl
    \/ UploadFile_Open
    \/ UploadFile_UploadBlob
    \/ UploadFile_WithExit
    \/ UploadFile_Except
    \/ DownloadFile_FromBlobUrl
    \/ DownloadFile_DownloadBlob
    \/ DownloadFile_Check
    \/ DownloadFile_Open
    \/ DownloadFile_Write
    \/ DownloadFile_Print
    \/ DownloadFile_WithExit
    \/ DownloadFile_Except
    \/ ReadAndPrintBlob_FromBlobUrl
    \/ ReadAndPrintBlob_DownloadBlob
    \/ ReadAndPrintBlob_Check
    \/ ReadAndPrintBlob_Decode
    \/ ReadAndPrintBlob_ReadCsv
    \/ ReadAndPrintBlob_Except

Spec == Init /\ [][Next]_vars

\* a call upload_from_path(start path, B) on its own, for any base path B;
\* the single thread always takes its next step
Bases == {<<"root">>, <<>>, <<"root", SEP>>}
START == <<"start">>

UploadInit ==
    /\ env = [n \in EnvNames |-> "v"]
    /\ choice = None
    /\ pc = "upload_from_path"
    /\ fs \in FileSystems
    /\ \E B \in Bases :
          /\ stack = <<Frame(START, B)>>
          /\ invoked = << <<"upload_from_path", START, B>> >>
    /\ localFile0 = Absent
    /\ localFile = Absent
    /\ Quiet

UploadSpec == UploadInit /\ [][UploadNext]_vars /\ WF_vars(UploadNext)

-----------------------------------------------------------------------------
(***************************************************************************)
(* Properties                                                              *)
(***************************************************************************)
Terminated == pc \in {"done", "crashed"}
Logged(text) == \E i \in 1..Len(log) : log[i].text = text
EmptyMsg == Msg("The blob is empty or could not be read", BLOB, "none")
InvalidMsg == Msg("Invalid choice.", <<>>, "none")
IsUpload == invoked = << <<"upload_from_path", LOCAL_UPLOAD, BLOB>> >>
IsDownload == invoked = << <<"download_file", BLOB, LOCAL_DOWNLOAD>> >>
IsRead == invoked = << <<"read_and_print_blob", BLOB>> >>
EnvIncomplete == \E n \in EnvNames : env[n] \in {None, ""}

\* C1: when one of the three environment values is unset or empty, the run
\* ends in load_env_vars with the configuration error, and before that and
\* after it no client was built, no network call made, no local file touched
\* and no operation invoked; the menu input is never even read.
C1_NoActivityWithoutConfig ==
    EnvIncomplete =>
        /\ effects = {}
        /\ invoked = <<>>
        /\ choice = None
        /\ log = <<>>
        /\ localFile = localFile0
        /\ \/ pc = "load_env_vars"
           \/ pc = "crashed" /\ exc = "EnvironmentError"

C1_Witness ==
    /\ env["CONTAINER_NAME_CHD"] = ""
    /\ env["STORAGE_SAS_TOKEN_CHD"] = "v"
    /\ env["STORAGE_ACCOUNT_CHD"] = "v"
    /\ pc = "crashed"
    /\ exc = "EnvironmentError"

\* C8: once main() has dispatched, '1' has invoked exactly upload_from_path,
\* '2' exactly download_file and '3' exactly read_and_print_blob, once, with
\* the hardcoded paths; every other input has printed "Invalid choice." and
\* ended the run with no operation, client, network call or file access.
C8_Dispatch ==
    (choice # None /\ pc # "dispatch") =>
        /\ choice = "1" => IsUpload /\ content = Absent /\ localFile = localFile0
        /\ choice = "2" => IsDownload /\ calls = <<>>
        /\ choice = "3" => IsRead /\ calls = <<>> /\ localFile = localFile0
        /\ choice \notin {"1", "2", "3"} =>
              /\ invoked = <<>>
              /\ effects = {}
              /\ calls = <<>>
              /\ handles = {}
              /\ localFile = localFile0
              /\ log = <<InvalidMsg>>
              /\ pc = "done"

C8_Witness ==
    /\ choice = " 1"
    /\ pc = "done"
    /\ log = <<InvalidMsg>>

\* C5: when download_file has retrieved zero bytes, the destination file is
\* as it was when the program started, no handle was opened, and the call
\* ends normally with the empty-content message as its only output.
C5_EmptyDownloadLeavesFile ==
    (IsDownload /\ content = <<>>) =>
        /\ localFile = localFile0
        /\ handles = {}
        /\ exc = "none"
        /\ \/ pc = "dl_check" /\ log = <<>>
           \/ pc = "done" /\ log = <<EmptyMsg>>

C5_Witness ==
    /\ IsDownload
    /\ content = <<>>
    /\ pc = "done"
    /\ localFile0 \notin {Absent, <<>>}
    /\ localFile = localFile0

C9_HandlesScoped ==
    /\ Cardinality(handles) <= 1
    /\ \A h \in handles :
          \/ /\ pc \in {"uf_upload_blob", "uf_with_exit"}
             /\ uf # NoCall
             /\ h = uf.local_file_path
          \/ /\ pc \in {"dl_write", "dl_print", "dl_with_exit"}
             /\ h = LOCAL_DOWNLOAD

C9_Witness ==
    /\ pc = "done"
    /\ handles = {}
    /\ \E i \in 1..Len(log) :
          log[i].text = "Failed to upload" /\ log[i].err = "HttpResponseError"

\* the arguments of the outermost upload_from_path call
StartPath == invoked[1][2]
BasePath == invoked[1][3]
LinkFree == fs.extra.kind # "link"

RECURSIVE JoinAll(_, _)
JoinAll(base, names) ==
    IF names = <<>> THEN base
    ELSE JoinAll(Join(base, <<Head(names)>>), Tail(names))

\* "B/s1/s2/.../sn"
RECURSIVE Slashed(_, _)
Slashed(base, names) ==
    IF names = <<>> THEN base
    ELSE Slashed(base \o <<SEP, Head(names)>>, Tail(names))

\* C2: when upload_from_path has ended on a link-free tree, upload_file was
\* called exactly once per regular file f of the tree, with blob path
\* B/s1/.../sn (B itself for the start path), and for nothing else; as this
\* holds in every run, the set of calls is the same for every order.
C2_ExactlyOneCallPerFile ==
    (LinkFree /\ Terminated) =>
        /\ Len(calls) = Cardinality(fs.files)
        /\ {calls[i] : i \in 1..Len(calls)} =
               {<<JoinAll(StartPath, f), Slashed(BasePath, f)>> : f \in fs.files}

\* C3: when upload_from_path has ended on a link-free tree, every regular
\* file of the tree was passed to upload_file, whichever uploads failed.
C3_EveryFileAttempted ==
    (LinkFree /\ Terminated) =>
        \A f \in fs.files : \E i \in 1..Len(calls) : calls[i][1] = JoinAll(StartPath, f)

\* C4: the only exception that ends a run of main() is the configuration
\* error of load_env_vars.
C4_OnlyConfigErrorEscapes ==
    pc = "crashed" => exc = "EnvironmentError"

\* C7: a call of read_and_print_blob ends normally, without touching a local
\* file, in exactly one of three ways: the empty-content message alone for
\* empty content, the table alone for content that decodes and parses, or
\* one failure message with the blob path and the error and no table.
C7_ThreeOutcomes ==
    (IsRead /\ Terminated) =>
        /\ pc = "done"
        /\ exc = "none"
        /\ localFile = localFile0
        /\ handles = {}
        /\ \/ content = <<>> /\ log = <<EmptyMsg>>
           \/ /\ content \notin {Absent, <<>>}
              /\ DecodesUtf8(content)
              /\ log = <<Msg("table", BLOB, "none")>>
           \/ /\ content # <<>>
              /\ Len(log) = 1
              /\ log[1].text = "Failed to read data from"
              /\ log[1].path = BLOB
              /\ log[1].err # "none"

StartIsNeither == ~isfile(StartPath) /\ ~isdir(StartPath)

=============================================================================
